---- MODULE Spec2Model ----
(***************************************************************************)
(* State-machine model of AGISplatform2222025.py, a Streamlit page.        *)
(*                                                                         *)
(* Streamlit runs the whole script once per user interaction (one "pass"). *)
(* The state that survives a pass is st.session_state, the process-wide    *)
(* st.cache_data stores, and the widget state kept for the widgets the     *)
(* last pass rendered.  Every interaction below is one action: it records  *)
(* the user's input in the widget state and runs the script from line 1 to *)
(* the point where it ends, stops (st.stop), reruns (st.rerun) or raises.  *)
(***************************************************************************)
EXTENDS Integers, Sequences, FiniteSets, TLC

\* ------------------------------------------------------------------ bounds
MaxDrawings == 2      \* drawings kept on the map at once
MaxPolygonRows == 2   \* rows of polygons_df (the table grows on every pass)
MaxTableRows == 2     \* rows of the polygon tables FilterSpec enumerates

\* ------------------------------------------------------- values and inputs
\* A null cell of the polygon table (dropna removes it); also Python's None
\* as returned by a selectbox that has no options.
NULL == 0
\* The sentinel first entry of the unit list ("No filter").
NoFilter == -1
\* A LAT/LON cell pd.to_numeric(errors="coerce") turns into NaN.
NaN == -1000

\* Python's None where the other values are records, and where they are strings
None == [none |-> TRUE]
NoneStr == "None"
\* a key st.cache_data has no entry for
Miss == [miss |-> TRUE]

USERS == [admin    |-> [password |-> "admin2025", role |-> "Admin"],
          customer |-> [password |-> "cust2025",  role |-> "Customer"]]

\* Passwords typed into the login form.
Passwords == {"admin2025", "cust2025", "wrong"}

\* ------------------------------------------------------ sequence helpers
RECURSIVE SeqToSet(_)
SeqToSet(s) == IF s = <<>> THEN {} ELSE {Head(s)} \cup SeqToSet(Tail(s))

RECURSIVE KeepRows(_, _, _)
\* rows of s (from position i on) whose position is not in drop
KeepRows(s, drop, i) ==
  IF i > Len(s) THEN <<>>
  ELSE (IF i \in drop THEN <<>> ELSE <<s[i]>>) \o KeepRows(s, drop, i + 1)

RECURSIVE Count(_, _)
Count(s, x) ==
  IF s = <<>> THEN 0 ELSE (IF Head(s) = x THEN 1 ELSE 0) + Count(Tail(s), x)

\* ----------------------------------------------------- pandas on a column
\* Series.dropna()
RECURSIVE dropna(_)
dropna(col) ==
  IF col = <<>> THEN <<>>
  ELSE (IF Head(col) = NULL THEN <<>> ELSE <<Head(col)>>) \o dropna(Tail(col))

\* Series.unique(): first occurrences, in order of appearance
RECURSIVE unique(_)
unique(col) ==
  IF col = <<>> THEN <<>>
  ELSE LET u == unique(SubSeq(col, 1, Len(col) - 1))
           x == col[Len(col)]
       IN IF x \in SeqToSet(u) THEN u ELSE Append(u, x)

\* sorted(): insertion sort, ascending
RECURSIVE Insert(_, _)
Insert(x, s) ==
  IF s = <<>> THEN <<x>>
  ELSE IF x <= Head(s) THEN <<x>> \o s
  ELSE <<Head(s)>> \o Insert(x, Tail(s))

RECURSIVE sorted(_)
sorted(s) == IF s = <<>> THEN <<>> ELSE Insert(Head(s), sorted(Tail(s)))

Column(df, c) == [i \in 1..Len(df) |-> df[i][c]]

\* df[df[c] == v]   (a comparison with a null cell or with None is False)
RECURSIVE WhereEq(_, _, _)
WhereEq(df, c, v) ==
  IF df = <<>> THEN <<>>
  ELSE (IF v # NULL /\ Head(df)[c] = v THEN <<Head(df)>> ELSE <<>>)
       \o WhereEq(Tail(df), c, v)

\* ------------------------------------------------------------ SE polygons
\* Rows of the remote SE.geojson: the four attribute columns and whether the
\* row's geometry is valid and not empty.
SERow(r, c, m, u, ok) ==
  [region |-> r, cercle |-> c, commune |-> m, idse_new |-> u, valid |-> ok]

\* The file served at SE_URL in the runs of Spec: one enumeration unit and
\* one row whose geometry is invalid.  (FilterSpec runs the sidebar on every
\* small table instead.)
SE_FILE ==
  << SERow(1, 1, 1, 5, TRUE),
     SERow(2, 2, 2, 6, FALSE) >>

\* load_se_data: gdf[gdf.is_valid & ~gdf.is_empty]; the reprojection, the
\* renaming of the columns and the default columns do not change the cells.
RECURSIVE load_se_data(_)
load_se_data(file) ==
  IF file = <<>> THEN <<>>
  ELSE (IF Head(file).valid THEN <<Head(file)>> ELSE <<>>)
       \o load_se_data(Tail(file))

\* ------------------------------------------------------ concession points
PointRow(lat, lon) == [LAT |-> lat, LON |-> lon]

\* concession.csv as served at POINTS_URL: its columns and rows.
PointsFiles ==
  { [cols |-> {"LAT", "LON"},
     rows |-> << PointRow(1, 1), PointRow(2, 4), PointRow(NaN, 3),
                 PointRow(6, 6) >>],
    [cols |-> {"LAT", "LON"}, rows |-> << >>] }

RECURSIVE DropNaN(_)
DropNaN(rows) ==
  IF rows = <<>> THEN <<>>
  ELSE (IF Head(rows).LAT = NaN \/ Head(rows).LON = NaN
          THEN <<>> ELSE <<Head(rows)>>) \o DropNaN(Tail(rows))

\* load_points_from_github(url): any failure inside it becomes None.
load_points_from_github(up, file) ==
  IF ~up THEN None
  ELSE IF ~({"LAT", "LON"} \subseteq file.cols) THEN None
  ELSE [columns |-> file.cols \cup {"geometry"}, rows |-> DropNaN(file.rows)]

\* ------------------------------------------------------------- geometries
\* GeoJSON features as the Draw plugin reports them: coordinates are
\* <<lon, lat>>, properties are empty.
NoProperties == [k \in {} |-> NULL]
PointFeature(lon, lat) ==
  [geometry |-> [type |-> "Point", coordinates |-> <<lon, lat>>],
   properties |-> NoProperties]
PolygonFeature(ring) ==
  [geometry |-> [type |-> "Polygon", coordinates |-> ring],
   properties |-> NoProperties]

MarkerA == PointFeature(1, 2)
MarkerB == PointFeature(2, 1)
\* an axis-parallel square; (1,1) is inside, (4,2) on its boundary
PolygonG == PolygonFeature(<< <<0, 0>>, <<4, 0>>, <<4, 4>>, <<0, 4>>, <<0, 0>> >>)
Features == {MarkerA, MarkerB, PolygonG}

\* shapely: shape(geometry).x / .y of a Point
geom_x(g) == g.coordinates[1]
geom_y(g) == g.coordinates[2]

MinOf(S) == CHOOSE x \in S : \A y \in S : x <= y
MaxOf(S) == CHOOSE x \in S : \A y \in S : x >= y

\* point.within(polygon) for an axis-parallel rectangle: strictly inside,
\* a point on the boundary is not within.
within(row, g) ==
  LET xs == {g.coordinates[i][1] : i \in 1..Len(g.coordinates)}
      ys == {g.coordinates[i][2] : i \in 1..Len(g.coordinates)}
  IN /\ MinOf(xs) < row.LON /\ row.LON < MaxOf(xs)
     /\ MinOf(ys) < row.LAT /\ row.LAT < MaxOf(ys)

RECURSIVE CountWithin(_, _)
CountWithin(rows, g) ==
  IF rows = <<>> THEN 0
  ELSE (IF within(Head(rows), g) THEN 1 ELSE 0) + CountWithin(Tail(rows), g)

\* ------------------------------------------------------------------ state
VARIABLES
  \* st.session_state (lines 27-33)
  auth_ok, username, user_role, points_gdf, markers_df, polygons_df,
  \* the process-wide st.cache_data stores of the two loaders
  se_cache, points_cache,
  \* widget state Streamlit keeps for the widgets of the last pass
  sel,               \* the four selectboxes of the sidebar
  map_data,          \* what st_folium returns: None or [all_drawings |-> ...]
  markers_editor,    \* st.data_editor of the markers table
  polygons_editor,   \* st.data_editor of the polygons table
  rerun_pending,     \* st.rerun() was called: the script runs again at once
  screen,            \* what the last pass put on the page
  \* the environment: whether each remote file can be fetched, and the csv
  se_up, pts_up, pts_file,
  \* history of the run, read by the properties only
  login_pw,          \* the password typed at the login that succeeded
  seen,              \* se_up and pts_up as the last pass found them
  deleted_markers,   \* <<lat, lon>> of the marker rows the user deleted
  deleted_polygons,  \* geometries of the polygon rows the user deleted
  polygons_src       \* for each row of polygons_df, the drawing it counts

session == <<auth_ok, username, user_role, points_gdf, markers_df, polygons_df>>
widgets == <<sel, map_data, markers_editor, polygons_editor, rerun_pending, screen>>
history == <<login_pw, seen, deleted_markers,
             deleted_polygons, polygons_src>>
vars == <<session, se_cache, points_cache, widgets, se_up, pts_up, pts_file,
          history>>

\* pd.DataFrame(columns=[...]): a table is the sequence of its rows
EmptyFrame == << >>
MarkerRow(lat, lon) == [Latitude |-> lat, Longitude |-> lon, Label |-> ""]
PolygonRow(n, total) == [PolygonNo |-> n, TotalPoints |-> total, Label |-> ""]

\* a widget the last pass did not render has no state
NoSelectbox == [live |-> FALSE, options |-> << >>, value |-> NULL]
NoWidgets == [region |-> NoSelectbox, cercle |-> NoSelectbox,
              commune |-> NoSelectbox, idse |-> NoSelectbox]
NoEditor == [live |-> FALSE, base |-> EmptyFrame, deleted |-> {}]

Init ==
  /\ auth_ok = FALSE
  /\ username = NoneStr
  /\ user_role = NoneStr
  /\ points_gdf = None
  /\ markers_df = EmptyFrame
  /\ polygons_df = EmptyFrame
  /\ se_cache = Miss
  /\ points_cache = Miss
  /\ sel = NoWidgets
  /\ map_data = None
  /\ markers_editor = NoEditor
  /\ polygons_editor = NoEditor
  /\ rerun_pending = FALSE
  /\ screen = {"login"}
  /\ se_up \in BOOLEAN
  /\ pts_up \in BOOLEAN
  /\ pts_file \in PointsFiles
  /\ login_pw = NoneStr
  /\ seen = [se_up |-> FALSE, pts_up |-> FALSE]
  /\ deleted_markers = {}
  /\ deleted_polygons = {}
  /\ polygons_src = << >>

\* ---------------------------------------------------------------- widgets
\* A selectbox that kept its value whatever options it is given.
StaleSelectbox(w, options) ==
  IF w.live THEN w.value
  ELSE IF options = << >> THEN NULL ELSE options[1]

\* st.selectbox(label, options) with no key: the widget is identified by its
\* label and options, so it keeps the user's choice while the options are the
\* same and starts again at the first option when they differ.
selectbox(w, options) ==
  IF w.live /\ w.options = options THEN w.value
  ELSE IF options = << >> THEN NULL ELSE options[1]

Rendered(options, value) == [live |-> TRUE, options |-> options, value |-> value]

\* st.data_editor(df, num_rows="dynamic") with no key: the widget is
\* identified by the data it is given; the rows the user deleted in it are
\* removed from that data for as long as the same data is passed in.
data_editor(ed, df) ==
  IF ed.live /\ ed.base = df
    THEN [out |-> KeepRows(df, ed.deleted, 1), ed |-> ed, removed |-> ed.deleted]
    ELSE [out |-> df, ed |-> [live |-> TRUE, base |-> df, deleted |-> {}],
          removed |-> {}]

\* ---------------------------------------------------------- sidebar filters
\* sorted(df[col].dropna().unique())
Candidates(df, col) == sorted(unique(dropna(Column(df, col))))

\* The cercle list taken from the whole table.
UnfilteredRegion(gdf, region) == gdf

gdf_r_of(gdf, region) == WhereEq(gdf, "region", region)
gdf_c_of(gdf_r, cercle) == WhereEq(gdf_r, "cercle", cercle)
gdf_commune_of(gdf_c, commune) == WhereEq(gdf_c, "commune", commune)
idse_list_of(gdf_commune) == <<NoFilter>> \o Candidates(gdf_commune, "idse_new")
gdf_idse_of(gdf_commune, idse_selected) ==
  IF idse_selected = NoFilter THEN gdf_commune
  ELSE WhereEq(gdf_commune, "idse_new", idse_selected)

\* lines 149-160: the state of the four selectboxes after the block
SidebarFilters(gdf, w) ==
  LET region_options == Candidates(gdf, "region")
      region == selectbox(w.region, region_options)
      gdf_r == gdf_r_of(gdf, region)
      cercle_options == Candidates(gdf_r, "cercle")
      cercle == selectbox(w.cercle, cercle_options)
      gdf_c == gdf_c_of(gdf_r, cercle)
      commune_options == Candidates(gdf_c, "commune")
      commune == selectbox(w.commune, commune_options)
      gdf_commune == gdf_commune_of(gdf_c, commune)
      idse_list == idse_list_of(gdf_commune)
      idse_selected == selectbox(w.idse, idse_list)
  IN [region  |-> Rendered(region_options, region),
      cercle  |-> Rendered(cercle_options, cercle),
      commune |-> Rendered(commune_options, commune),
      idse    |-> Rendered(idse_list, idse_selected)]

\* ------------------------------------------------------- safe spatial join
\* point.intersects(polygon) for an axis-parallel rectangle: boundary included
intersects(row, g) ==
  LET xs == {g.coordinates[i][1] : i \in 1..Len(g.coordinates)}
      ys == {g.coordinates[i][2] : i \in 1..Len(g.coordinates)}
  IN /\ MinOf(xs) <= row.LON /\ row.LON <= MaxOf(xs)
     /\ MinOf(ys) <= row.LAT /\ row.LAT <= MaxOf(ys)

RECURSIVE sjoin(_, _)
\* inner join: one output row per (point, polygon) pair that intersects
sjoin(rows, polys) ==
  IF rows = << >> THEN << >>
  ELSE LET hit == {j \in 1..Len(polys) : intersects(Head(rows), polys[j])}
       IN [j \in 1..Cardinality(hit) |-> Head(rows)] \o sjoin(Tail(rows), polys)

\* lines 128-137; a table is None or [columns, rows]; a raise is reported in
\* the field "raised"
safe_sjoin(points, polygons) ==
  IF points = None \/ points.rows = << >> \/ polygons = None \/ polygons.rows = << >>
    THEN [columns |-> IF points # None THEN points.columns ELSE {},
          rows |-> << >>, raised |-> FALSE]
    ELSE [columns |-> points.columns \cup {"index__r"} \cup (polygons.columns \ {"index_right", "_r", "geometry"}),
          rows |-> sjoin(points.rows, polygons.rows), raised |-> FALSE]

\* ------------------------------------------------------------ drawn shapes
\* The comparison with the coordinates the wrong way round.
SwappedMarkerExists(df, geom) ==
  \E i \in 1..Len(df) :
    df[i].Latitude = geom_x(geom) /\ df[i].Longitude = geom_y(geom)

\* lines 239-240: a row with this latitude and longitude is in the table
MarkerExists(df, geom) ==
  \E i \in 1..Len(df) :
    df[i].Latitude = geom_y(geom) /\ df[i].Longitude = geom_x(geom)

RECURSIVE HandleMarkers(_, _)
\* lines 235-244
HandleMarkers(df, all_drawings) ==
  IF all_drawings = << >> THEN df
  ELSE LET feature == Head(all_drawings)
           geom == feature.geometry
       IN IF geom.type = "Point" /\ ~MarkerExists(df, geom)
            THEN HandleMarkers(Append(df, MarkerRow(geom_y(geom), geom_x(geom))),
                               Tail(all_drawings))
            ELSE HandleMarkers(df, Tail(all_drawings))

\* feature["properties"].get("id", polygon_counter)
FeatureId(feature, polygon_counter) ==
  IF "id" \in DOMAIN feature.properties
    THEN feature.properties["id"] ELSE polygon_counter

\* The existence test left out.
NoPolygonExists(df, id) == FALSE

\* line 262-263: polygons_df["Polygon #"].isin([id]).any()
PolygonExists(df, id) == \E i \in 1..Len(df) : df[i].PolygonNo = id

RECURSIVE HandlePolygons(_, _, _)
\* lines 258-274; st is [df, src, counter, raised]: the table, the drawing
\* behind each row, polygon_counter, and whether line 265 raised (points_gdf
\* is None: 'NoneType' object has no attribute 'geometry')
HandlePolygons(st, all_drawings, pts) ==
  IF all_drawings = << >> \/ st.raised THEN st
  ELSE LET feature == Head(all_drawings)
           geom == feature.geometry
       IN IF geom.type \notin {"Polygon", "MultiPolygon"}
            THEN HandlePolygons(st, Tail(all_drawings), pts)
          ELSE IF PolygonExists(st.df, FeatureId(feature, st.counter))
            THEN HandlePolygons(st, Tail(all_drawings), pts)
          ELSE IF pts = None
            THEN [st EXCEPT !.raised = TRUE]
          ELSE HandlePolygons(
                 [df |-> Append(st.df, PolygonRow(st.counter,
                                                  CountWithin(pts.rows, geom))),
                  src |-> Append(st.src, geom),
                  counter |-> st.counter + 1,
                  raised |-> FALSE],
                 Tail(all_drawings), pts)

\* -------------------------------------------------------------- the script
\* What the user did to start a pass: the widget state as the browser sends
\* it, the login form, the Logout button.
NoLogin == [clicked |-> FALSE, username |-> "admin", password |-> "wrong"]
Idle == [w |-> sel, md |-> map_data, me |-> markers_editor,
         pe |-> polygons_editor, login |-> NoLogin, logout |-> FALSE]

DropWidgets ==
  /\ sel' = NoWidgets
  /\ map_data' = None
  /\ markers_editor' = NoEditor
  /\ polygons_editor' = NoEditor

\* A login that accepts any password.
AnyPasswordOk(login) == TRUE

\* line 55: the password check of the login form
PasswordOk(login) == login.password = USERS[login.username].password

\* lines 50-63: the login page, reached while auth_ok is False
LoginPage(u) ==
  LET ok == u.login.clicked /\ PasswordOk(u.login) IN
  /\ auth_ok' = ok
  /\ username' = IF ok THEN u.login.username ELSE username
  /\ user_role' = IF ok THEN USERS[u.login.username].role ELSE user_role
  /\ rerun_pending' = ok
  /\ screen' = IF ok THEN {"login", "success"}
               ELSE IF u.login.clicked THEN {"login", "login_error"}
               ELSE {"login"}
  /\ login_pw' = IF ok THEN u.login.password ELSE login_pw
  /\ DropWidgets
  /\ UNCHANGED <<seen, points_gdf, markers_df, polygons_df, se_cache,
                 points_cache, deleted_markers, deleted_polygons, polygons_src>>

\* lines 88-92: load_se_data raised (st.cache_data stores no exception)
SEErrorPage ==
  /\ screen' = {"error"}
  /\ seen' = [se_up |-> se_up, pts_up |-> pts_up]
  /\ rerun_pending' = FALSE
  /\ DropWidgets
  /\ UNCHANGED <<session, se_cache, points_cache, login_pw, deleted_markers,
                 deleted_polygons, polygons_src>>

\* lines 38-45: logout(), called from the sidebar at line 146
logout ==
  /\ auth_ok' = FALSE
  /\ username' = NoneStr
  /\ user_role' = NoneStr
  /\ points_gdf' = None
  /\ markers_df' = EmptyFrame
  /\ polygons_df' = EmptyFrame
  /\ rerun_pending' = TRUE

\* lines 99-123: what the points logic leaves in the cache and in the pass
PointsLogic ==
  LET loaded == IF points_cache # Miss THEN points_cache.value
                ELSE load_points_from_github(pts_up, pts_file)
      local == IF points_gdf # None THEN points_gdf ELSE loaded
  IN [points_gdf |-> local,
      cache |-> IF points_gdf # None THEN points_cache ELSE [value |-> loaded]]

\* lines 65-278 for a logged-in session
AppPage(u) ==
  LET gdf == IF se_cache # Miss THEN se_cache.value ELSE load_se_data(SE_FILE)
      pts == PointsLogic
      all_drawings == IF u.md # None THEN u.md.all_drawings ELSE << >>
      markers == HandleMarkers(markers_df, all_drawings)
      medit == data_editor(u.me, markers)
      hp == HandlePolygons([df |-> polygons_df, src |-> polygons_src,
                            counter |-> Len(polygons_df) + 1, raised |-> FALSE],
                           all_drawings, pts.points_gdf)
      pedit == data_editor(u.pe, hp.df)
  IN
  /\ se_cache' = [value |-> gdf]
  /\ points_cache' = pts.cache
  /\ seen' = [se_up |-> se_up, pts_up |-> pts_up]
  /\ IF u.logout
       THEN /\ logout
            /\ DropWidgets
            /\ screen' = {}
            /\ login_pw' = NoneStr
            /\ deleted_markers' = {}
            /\ deleted_polygons' = {}
            /\ polygons_src' = << >>
       ELSE /\ Len(hp.df) <= MaxPolygonRows
            /\ UNCHANGED <<auth_ok, username, user_role, login_pw>>
            /\ points_gdf' = pts.points_gdf
            /\ sel' = SidebarFilters(gdf, u.w)
            /\ map_data' = u.md
            /\ markers_df' = medit.out
            /\ markers_editor' = medit.ed
            /\ deleted_markers' = deleted_markers \cup
                 {<<markers[i].Latitude, markers[i].Longitude>> : i \in medit.removed}
            /\ rerun_pending' = FALSE
            /\ IF hp.raised
                 THEN /\ polygons_df' = polygons_df
                      /\ polygons_src' = polygons_src
                      /\ polygons_editor' = NoEditor
                      /\ deleted_polygons' = deleted_polygons
                      /\ screen' = {"sidebar", "map", "markers_table", "exception"}
                 ELSE /\ polygons_df' = pedit.out
                      /\ polygons_src' = KeepRows(hp.src, pedit.removed, 1)
                      /\ polygons_editor' = pedit.ed
                      /\ deleted_polygons' = deleted_polygons \cup {hp.src[i] : i \in pedit.removed}
                      /\ screen' = {"sidebar", "map", "markers_table",
                                    "polygons_table"}

\* One pass of the script, started by the interaction u.
RunScript(u) ==
  /\ UNCHANGED <<se_up, pts_up, pts_file>>
  /\ IF ~auth_ok THEN LoginPage(u)
     ELSE IF se_cache = Miss /\ ~se_up THEN SEErrorPage
     ELSE AppPage(u)

\* ------------------------------------------------------------ interactions
\* The Login button, with the user and the password of the form.
Login(name, pw) ==
  /\ ~rerun_pending /\ "login" \in screen
  /\ RunScript([Idle EXCEPT !.login = [clicked |-> TRUE, username |-> name,
                                        password |-> pw]])

\* The rerun st.rerun() asked for (lines 45 and 60).
ScriptRerun ==
  /\ rerun_pending
  /\ RunScript(Idle)

\* The user reruns the page (the "Rerun" menu entry, the R key).
UserRerun ==
  /\ ~rerun_pending
  /\ RunScript(Idle)

\* The Logout button of the sidebar.
LogoutClick ==
  /\ ~rerun_pending /\ "sidebar" \in screen
  /\ RunScript([Idle EXCEPT !.logout = TRUE])

\* The user picks another option in one of the four selectboxes.
SelectChange(field, v) ==
  /\ ~rerun_pending /\ "sidebar" \in screen
  /\ sel[field].live
  /\ v \in SeqToSet(sel[field].options) /\ v # sel[field].value
  /\ RunScript([Idle EXCEPT !.w = [sel EXCEPT ![field].value = v]])

Drawn == IF map_data = None THEN << >> ELSE map_data.all_drawings

\* The user draws a marker or a polygon on the map.
Draw(f) ==
  /\ ~rerun_pending /\ "map" \in screen
  /\ Len(Drawn) < MaxDrawings
  /\ RunScript([Idle EXCEPT !.md = [all_drawings |-> Append(Drawn, f)]])

\* The user removes the drawings with the delete tool of the Draw control.
ClearDrawings ==
  /\ ~rerun_pending /\ "map" \in screen
  /\ Drawn # << >>
  /\ RunScript([Idle EXCEPT !.md = [all_drawings |-> << >>]])

\* The user deletes row i of the markers table as the editor shows it.
DeleteMarkerRow(i) ==
  /\ ~rerun_pending /\ "markers_table" \in screen
  /\ markers_editor.live
  /\ i \in (1..Len(markers_editor.base)) \ markers_editor.deleted
  /\ RunScript([Idle EXCEPT !.me.deleted = @ \cup {i}])

\* The user deletes row i of the polygons table as the editor shows it.
DeletePolygonRow(i) ==
  /\ ~rerun_pending /\ "polygons_table" \in screen
  /\ polygons_editor.live
  /\ i \in (1..Len(polygons_editor.base)) \ polygons_editor.deleted
  /\ RunScript([Idle EXCEPT !.pe.deleted = @ \cup {i}])

\* A remote file becomes reachable or unreachable.  Once a loader's result
\* is in use the file is never fetched again, and its changes are left out.
SESourceChange ==
  /\ se_cache = Miss
  /\ se_up' = ~se_up
  /\ UNCHANGED <<session, se_cache, points_cache, widgets, pts_up, pts_file,
                 history>>

PointsSourceChange ==
  /\ points_gdf = None
  /\ IF points_cache = Miss THEN TRUE ELSE points_cache.value = None
  /\ pts_up' = ~pts_up
  /\ UNCHANGED <<session, se_cache, points_cache, widgets, se_up, pts_file,
                 history>>

Next ==
  \/ \E name \in DOMAIN USERS, pw \in Passwords : Login(name, pw)
  \/ ScriptRerun
  \/ UserRerun
  \/ LogoutClick
  \/ \E field \in DOMAIN NoWidgets : \E v \in SeqToSet(sel[field].options) :
       SelectChange(field, v)
  \/ \E f \in Features : Draw(f)
  \/ ClearDrawings
  \/ \E i \in 1..Len(markers_editor.base) : DeleteMarkerRow(i)
  \/ \E i \in 1..Len(polygons_editor.base) : DeletePolygonRow(i)
  \/ SESourceChange
  \/ PointsSourceChange

Spec == Init /\ [][Next]_vars

\* --------------------------------------------- the sidebar on every table
\* FilterSpec runs the sidebar block (lines 149-160) alone, on every polygon
\* table of at most MaxTableRows rows, as load_se_data would have left it in
\* the cache.
FilterRows ==
  {SERow(r, c, m, u, TRUE) : r \in {NULL, 1, 2}, c \in {NULL, 1, 2},
                             m \in {NULL, 1, 2}, u \in {NULL, 1}}
FilterTables ==
  UNION {[1..n -> FilterRows] : n \in 0..MaxTableRows}

FilterInit ==
  /\ auth_ok = TRUE
  /\ username = "admin"
  /\ user_role = "Admin"
  /\ points_gdf = None
  /\ markers_df = EmptyFrame
  /\ polygons_df = EmptyFrame
  /\ se_cache \in {[value |-> t] : t \in FilterTables}
  /\ points_cache = Miss
  /\ sel = NoWidgets
  /\ map_data = None
  /\ markers_editor = NoEditor
  /\ polygons_editor = NoEditor
  /\ rerun_pending = FALSE
  /\ screen = {}
  /\ se_up = TRUE
  /\ pts_up = TRUE
  /\ pts_file \in {f \in PointsFiles : f.rows = << >>}
  /\ login_pw = "admin2025"
  /\ seen = [se_up |-> TRUE, pts_up |-> TRUE]
  /\ deleted_markers = {}
  /\ deleted_polygons = {}
  /\ polygons_src = << >>

\* the block is run for the first time
FilterRender ==
  /\ ~sel.region.live
  /\ sel' = SidebarFilters(se_cache.value, sel)
  /\ screen' = {"sidebar"}
  /\ UNCHANGED <<session, se_cache, points_cache, map_data, markers_editor,
                 polygons_editor, rerun_pending, se_up, pts_up, pts_file,
                 history>>

\* the block is run again after the user picked v in one selectbox
FilterSelect(field, v) ==
  /\ sel[field].live
  /\ v \in SeqToSet(sel[field].options) /\ v # sel[field].value
  /\ sel' = SidebarFilters(se_cache.value, [sel EXCEPT ![field].value = v])
  /\ UNCHANGED <<session, se_cache, points_cache, map_data, markers_editor,
                 polygons_editor, rerun_pending, screen, se_up, pts_up,
                 pts_file, history>>

FilterNext ==
  \/ FilterRender
  \/ \E field \in DOMAIN NoWidgets : \E v \in SeqToSet(sel[field].options) :
       FilterSelect(field, v)

FilterSpec == FilterInit /\ [][FilterNext]_vars

\* ------------------------------------------------------------- properties
HasMarker(df, p) ==
  \E i \in 1..Len(df) : df[i].Latitude = p[1] /\ df[i].Longitude = p[2]
MarkerRows(df, p) ==
  Cardinality({i \in 1..Len(df) : df[i].Latitude = p[1] /\ df[i].Longitude = p[2]})
\* <<latitude, longitude>> of the Point features of a list of drawings
DrawnPoints(d) ==
  {<<d[i].geometry.coordinates[2], d[i].geometry.coordinates[1]>> :
     i \in {j \in 1..Len(d) : d[j].geometry.type = "Point"}}
DrawnPolygons(d) ==
  {d[i].geometry : i \in {j \in 1..Len(d) : d[j].geometry.type = "Polygon"}}
TimesDrawn(d, g) == Cardinality({i \in 1..Len(d) : d[i].geometry = g})
PointGeometry(p) == [type |-> "Point", coordinates |-> <<p[2], p[1]>>]
IsPrefix(a, b) == Len(a) <= Len(b) /\ SubSeq(b, 1, Len(a)) = a
Ascending(s) == \A i \in 1..(Len(s) - 1) : s[i] < s[i + 1]
\* the step is a pass of the script (the remote files did not change)
IsPass == se_up' = se_up /\ pts_up' = pts_up

\* C1: while the user has deleted no row of the polygons table, a pass that
\* ran to its end leaves exactly one row in polygons_df for every polygon
\* the map reports, however many passes reported it.
C1_OnePolygonRow ==
  ("polygons_table" \in screen /\ deleted_polygons = {}) =>
    \A g \in DrawnPolygons(Drawn) : Count(polygons_src, g) = 1

\* C2: markers_df never holds two rows with the same (latitude, longitude),
\* and while the user has deleted no row of the markers table, every Point
\* the map reports has exactly one row, however often it was reported.
C2_OneMarkerRow ==
  /\ \A i, j \in 1..Len(markers_df) :
       (markers_df[i].Latitude = markers_df[j].Latitude
        /\ markers_df[i].Longitude = markers_df[j].Longitude) => i = j
  /\ ("markers_table" \in screen /\ deleted_markers = {}) =>
       \A p \in DrawnPoints(Drawn) : MarkerRows(markers_df, p) = 1

\* a marker reported twice in one pass and again on a later pass has one row
C2_Witness ==
  /\ Drawn = <<MarkerA, MarkerA>>
  /\ markers_df = <<MarkerRow(2, 1)>>
  /\ deleted_markers = {}

\* C3: once the user has deleted the row of a marker or of a polygon, no
\* later pass gives that shape a row again (unless the user draws it anew),
\* also while the map still reports the drawing.
C3_DeletionPermanent ==
  [][IsPass =>
      /\ \A p \in deleted_markers :
           (HasMarker(markers_df', p) /\ ~HasMarker(markers_df, p)) =>
             TimesDrawn(Drawn', PointGeometry(p)) > TimesDrawn(Drawn, PointGeometry(p))
      /\ \A g \in deleted_polygons :
           Count(polygons_src', g) > Count(polygons_src, g) =>
             TimesDrawn(Drawn', g) > TimesDrawn(Drawn, g)]_vars

\* the rows of the cached table that match the values in effect
RowsOf(cols) ==
  LET gdf == se_cache.value
  IN {i \in 1..Len(gdf) :
        \A c \in cols : sel[c].value # NULL /\ gdf[i][c] = sel[c].value}
ValuesOf(cols, col) ==
  {se_cache.value[i][col] : i \in RowsOf(cols)} \ {NULL}
InEffect(field, values) ==
  IF values = {} THEN sel[field].value = NULL ELSE sel[field].value \in values

\* C4: on every pass the cercle in effect occurs among the rows of the region
\* in effect, the commune among the rows of that region and cercle, and the
\* unit, unless it is "No filter", among the rows of that commune (a list
\* with no candidate leaves no value in effect).
C4_NoStaleChild ==
  sel.region.live =>
    /\ InEffect("region", ValuesOf({}, "region"))
    /\ InEffect("cercle", ValuesOf({"region"}, "cercle"))
    /\ InEffect("commune", ValuesOf({"region", "cercle"}, "commune"))
    /\ \/ sel.idse.value = NoFilter
       \/ sel.idse.value \in ValuesOf({"region", "cercle", "commune"}, "idse_new")

\* the user left the first region for another one whose rows do not have the
\* cercle that was in effect under the first
C4_Witness ==
  /\ sel.region.live
  /\ Len(sel.region.options) = 2
  /\ sel.region.value = sel.region.options[2]
  /\ LET first == Candidates(gdf_r_of(se_cache.value, sel.region.options[1]), "cercle")
     IN first # << >> /\ first[1] \notin SeqToSet(sel.cercle.options)
  /\ sel.cercle.options # << >>

\* C5: a pass on which the SE polygons or the concession points could not be
\* loaded shows an error and renders neither the map nor the tables of drawn
\* shapes.
C5_FailureHalts ==
  (auth_ok /\ ~rerun_pending /\ (se_cache = Miss \/ points_gdf = None)) =>
    ("error" \in screen /\ "map" \notin screen /\ "markers_table" \notin screen)

\* C6: a pass that finds a remote file reachable has its table afterwards,
\* whatever earlier passes found.
C6_RetryAfterFailure ==
  (auth_ok /\ ~rerun_pending) =>
    /\ seen.se_up => se_cache # Miss
    /\ (se_cache # Miss /\ seen.pts_up) => points_gdf # None

SjoinInputs ==
  {None,
   [columns |-> {"LAT", "LON", "geometry"}, rows |-> << >>],
   [columns |-> {"LAT", "LON", "geometry"}, rows |-> <<PointRow(1, 1)>>]}
SjoinPolygons ==
  {None,
   [columns |-> {"idse_new", "geometry"}, rows |-> << >>],
   [columns |-> {"idse_new", "geometry"}, rows |-> <<PolygonG.geometry>>]}

\* C7: with the point table absent or empty no pass raises, and safe_sjoin
\* of an absent or empty table returns no rows, with the columns of the
\* point table, without raising.
C7_DegenerateNeverRaises ==
  /\ (IF points_gdf = None THEN TRUE ELSE points_gdf.rows = << >>) =>
       "exception" \notin screen
  /\ \A points \in SjoinInputs, polygons \in SjoinPolygons :
       (IF points = None THEN TRUE
        ELSE IF points.rows = << >> THEN TRUE
        ELSE IF polygons = None THEN TRUE ELSE polygons.rows = << >>) =>
         LET r == safe_sjoin(points, polygons)
         IN /\ ~r.raised /\ r.rows = << >>
            /\ r.columns = IF points = None THEN {} ELSE points.columns

\* C8: each candidate list is, in ascending order and without repetition,
\* the non-null values of its column among the rows that match the parents
\* in effect; the unit list is "No filter" followed by such a list.
C8_CandidateLists ==
  sel.region.live =>
    /\ Ascending(sel.region.options)
    /\ SeqToSet(sel.region.options) = ValuesOf({}, "region")
    /\ Ascending(sel.cercle.options)
    /\ SeqToSet(sel.cercle.options) = ValuesOf({"region"}, "cercle")
    /\ Ascending(sel.commune.options)
    /\ SeqToSet(sel.commune.options) = ValuesOf({"region", "cercle"}, "commune")
    /\ Head(sel.idse.options) = NoFilter
    /\ Ascending(Tail(sel.idse.options))
    /\ SeqToSet(Tail(sel.idse.options)) =
         ValuesOf({"region", "cercle", "commune"}, "idse_new")

\* the user chose region 2: its list holds its own cercle and leaves out the
\* cercle of region 1
C8_Witness ==
  /\ sel.region.live
  /\ se_cache.value = << SERow(1, 2, 1, 1, TRUE), SERow(2, 1, 1, 1, TRUE) >>
  /\ sel.region.value = 2
  /\ sel.cercle.options = <<1>>

\* C9: a session is either logged out, with no user, no role, no points and
\* no drawn shape, or logged in as a user of USERS whose password was typed
\* at the login, with that user's role.
C9_SessionIdentity ==
  IF ~auth_ok
    THEN /\ username = NoneStr /\ user_role = NoneStr /\ login_pw = NoneStr
         /\ points_gdf = None
         /\ markers_df = EmptyFrame /\ polygons_df = EmptyFrame
    ELSE /\ username \in DOMAIN USERS
         /\ login_pw = USERS[username].password
         /\ user_role = USERS[username].role

\* logged out again after a session that loaded both files
C9_Witness ==
  /\ ~auth_ok /\ ~rerun_pending
  /\ se_cache # Miss /\ points_cache # Miss

PolygonNos(df) == [i \in 1..Len(df) |-> df[i].PolygonNo]

\* C10: the "Polygon #" values of polygons_df are pairwise distinct, and a
\* pass keeps every row it finds, with its "Polygon #", ahead of the rows it
\* adds; only the rows the user deleted in the editor leave the table.
C10_PolygonIds ==
  [][IsPass =>
      /\ \A i, j \in 1..Len(polygons_df') :
           polygons_df'[i].PolygonNo = polygons_df'[j].PolygonNo => i = j
      /\ "polygons_table" \in screen' =>
           /\ IsPrefix(polygons_df, polygons_editor'.base)
           /\ polygons_df' = KeepRows(polygons_editor'.base,
                                      polygons_editor'.deleted, 1)
      /\ "exception" \in screen' => polygons_df' = polygons_df]_vars

\* a polygon is drawn after the first row was deleted: the table keeps row 2
C10_Witness ==
  /\ PolygonNos(polygons_df) = <<2>>
  /\ deleted_polygons # {}
  /\ DrawnPolygons(Drawn) # {}
====
